---- MODULE Spec2Model ----
(***************************************************************************)
(* Motion triangle intersection of the Cycles kernel                       *)
(* (intern/cycles/kernel/geom/motion_triangle_intersect.h).                *)
(*                                                                         *)
(* float and float3 values are modelled exactly: distances and barycentric *)
(* coordinates are integers in a fixed unit, points are integer triples,   *)
(* and the one division of the refiner is kept as an exact fraction.       *)
(* Bit masks (object_flag, visibility) are modelled as the set of their    *)
(* set bits, so that a & b is the intersection and "non-zero" is           *)
(* "non-empty".                                                            *)
(***************************************************************************)
EXTENDS Integers, Sequences, FiniteSets, TLC

VARIABLES
  local_isect,     \* LocalIntersection: [num_hits, hits, Ng]
  lcg_state,       \* the caller's random stream state (*lcg_state)
  lcg_supplied,    \* the traversal passes lcg_state != NULL
  max_hits,        \* the traversal's max_hits when it records hits
  time,            \* the ray's time
  ray_hits,        \* per primitive: what ray_triangle_intersect returns for the ray
  local_call,      \* arguments and result of the last motion_triangle_intersect_local call
  closest_t,       \* history: least t of the candidates offered to recording calls (0: none)
  isect,           \* the caller's Intersection of motion_triangle_intersect
  prim_visibility, \* the scene's __prim_visibility table
  nearest_call,    \* arguments and result of the last motion_triangle_intersect call
  refine_call,     \* arguments and result of the last motion_triangle_refine call
  INTERSECTION_REFINE,  \* the build defines __INTERSECTION_REFINE__
  VISIBILITY_FLAG,      \* the build defines __VISIBILITY_FLAG__
  script,          \* scenario: the candidates still to be offered
  fed              \* scenario: the candidates offered so far

localVars == <<local_isect, lcg_state, local_call, closest_t>>
traversalVars == <<lcg_supplied, max_hits, time, ray_hits>>
scenarioVars == <<script, fed>>
nearestVars == <<isect, nearest_call>>
sceneVars == <<prim_visibility, INTERSECTION_REFINE, VISIBILITY_FLAG>>

vars == <<localVars, traversalVars, scenarioVars, nearestVars, refine_call, sceneVars>>

(***************************************************************************)
(* Bounds of the model.                                                    *)
(***************************************************************************)
\* largest max_hits a traversal passes; the buffer has that many slots
MaxHits == 2
\* hit distances t range over 1..MaxT
MaxT == 3
\* the random stream returns values in 0..MaxDraw
MaxDraw == 2
\* calls are made while num_hits is below this
MaxCount == 4

Prims == {0, 1, 2}
Objects == {0}
Times == {0, 1}
Slots == 0 .. (MaxHits - 1)
PrimAddrs == {0, 1}
\* the bits of a visibility mask
VisibilityBits == {0, 1}

(***************************************************************************)
(* float3 arithmetic.                                                      *)
(***************************************************************************)
Abs(x) == IF x < 0 THEN -x ELSE x

RECURSIVE Gcd(_, _)
Gcd(a, b) == IF b = 0 THEN a ELSE Gcd(b, a % b)

add(a, b) == <<a[1] + b[1], a[2] + b[2], a[3] + b[3]>>
sub(a, b) == <<a[1] - b[1], a[2] - b[2], a[3] - b[3]>>
scale(a, k) == <<a[1] * k, a[2] * k, a[3] * k>>
dot(a, b) == a[1] * b[1] + a[2] * b[2] + a[3] * b[3]
cross(a, b) == <<a[2] * b[3] - a[3] * b[2],
                 a[3] * b[1] - a[1] * b[3],
                 a[1] * b[2] - a[2] * b[1]>>

\* The unit vector along a, written as the primitive integer vector of its
\* direction (exactly the unit vector when a is parallel to an axis).
normalize(a) ==
  LET g == Gcd(Gcd(Abs(a[1]), Abs(a[2])), Abs(a[3]))
  IN  IF g = 0 THEN a ELSE <<a[1] \div g, a[2] \div g, a[3] \div g>>

min(a, b) == IF a < b THEN a ELSE b

(***************************************************************************)
(* External collaborators.                                                 *)
(***************************************************************************)
\* motion_triangle_vertices: the three vertices of a primitive at a time. The
\* scene holds triangles that turn from a plane z = const (time 0) to a plane
\* x = const (time 1); odd primitives have the opposite winding.
motion_triangle_vertices(object, prim, t) ==
  LET h == prim + object + 1
      a == IF t = 0 THEN <<0, 0, h>> ELSE <<h, 0, 0>>
      b == IF t = 0 THEN <<1, 0, h>> ELSE <<h, 1, 0>>
      c == IF t = 0 THEN <<0, 1, h>> ELSE <<h, 0, 1>>
  IN  IF prim % 2 = 0 THEN <<a, b, c>> ELSE <<a, c, b>>

\* ray_triangle_intersect: reject, or accept with (u, v, t), u >= 0, v >= 0,
\* u + v <= 1 (here in units of 1) and 0 < t < tmax.
Miss == [accept |-> FALSE, t |-> 0, u |-> 0, v |-> 0]

RayTriangleResults(distances) ==
  {Miss} \cup {[accept |-> TRUE, t |-> t, u |-> uv[1], v |-> uv[2]] :
                 t \in distances, uv \in {<<0, 0>>, <<1, 0>>}}

\* lcg_step_uint: advances the stream state in place and returns the next
\* value, here the value the stream holds at that position.
lcg_step_uint(state, draw) == [state |-> state + 1, value |-> draw]

(***************************************************************************)
(* motion_triangle_intersect_local                                         *)
(***************************************************************************)
Uninitialized ==
  [t |-> 0, u |-> 0, v |-> 0, prim |-> 0, object |-> 0, type |-> "uninitialized"]

NoNormal == <<0, 0, 0>>

EmptyLocalIsect ==
  [num_hits |-> 0, hits |-> [i \in Slots |-> Uninitialized], Ng |-> [i \in Slots |-> NoNormal]]

\* if (max_hits == 0) return true;
ExistenceOnlyNever(mh) == mh < 0
ExistenceOnly(mh) == mh = 0

\* the slots the duplicate loop reads: i = min(max_hits, num_hits) - 1 down to 0
ScannedSlots(li, mh) == 0 .. (min(mh, li.num_hits) - 1)

\* if (local_isect->hits[i].t == t) return false;  for some scanned slot
IsDuplicateNewestOnly(li, t, mh) ==
  \E i \in ScannedSlots(li, mh) : i = min(mh, li.num_hits) - 1 /\ li.hits[i].t = t
IsDuplicate(li, t, mh) == \E i \in ScannedSlots(li, mh) : li.hits[i].t = t

\* if (local_isect->num_hits <= max_hits) hit = num_hits - 1;
\* else { hit = lcg_step_uint(lcg_state) % num_hits; if (hit >= max_hits) return false; }
\* num_hits is the count after the increment. The result is [hit, stored, state].
ReservoirSlotNoDiscard(num_hits, mh, state, draw) ==
  IF num_hits <= mh
    THEN [hit |-> num_hits - 1, stored |-> TRUE, state |-> state]
    ELSE LET r == lcg_step_uint(state, draw)
             h == r.value % num_hits
         IN  [hit |-> h, stored |-> TRUE, state |-> r.state]
ReservoirSlotAlwaysDraws(num_hits, mh, state, draw) ==
  LET r == lcg_step_uint(state, draw)
      h == r.value % num_hits
  IN  IF num_hits <= mh
        THEN [hit |-> num_hits - 1, stored |-> TRUE, state |-> r.state]
        ELSE [hit |-> h, stored |-> h < mh, state |-> r.state]
ReservoirSlotOffByOne(num_hits, mh, state, draw) ==
  IF num_hits < mh
    THEN [hit |-> num_hits - 1, stored |-> TRUE, state |-> state]
    ELSE LET r == lcg_step_uint(state, draw)
             h == r.value % num_hits
         IN  [hit |-> h, stored |-> h < mh, state |-> r.state]
ReservoirSlot(num_hits, mh, state, draw) ==
  IF num_hits <= mh
    THEN [hit |-> num_hits - 1, stored |-> TRUE, state |-> state]
    ELSE LET r == lcg_step_uint(state, draw)
             h == r.value % num_hits
         IN  [hit |-> h, stored |-> h < mh, state |-> r.state]

\* if (local_isect->num_hits && t > local_isect->hits[0].t) return false;
ClosestRejectTies(li, t) == li.num_hits # 0 /\ t >= li.hits[0].t
ClosestRejectNearer(li, t) == li.num_hits # 0 /\ t < li.hits[0].t
ClosestReject(li, t) == li.num_hits # 0 /\ t > li.hits[0].t

\* the Intersection written for a candidate
HitRecord(r, object, prim) ==
  [t |-> r.t, u |-> r.u, v |-> r.v, prim |-> prim, object |-> object,
   type |-> "PRIMITIVE_MOTION_TRIANGLE"]

\* normalize(cross(verts[1] - verts[0], verts[2] - verts[0]))
GeometricNormal(verts) ==
  normalize(cross(sub(verts[2], verts[1]), sub(verts[3], verts[1])))

\* return false; after a hit was recorded
StopAfterRecordYes == TRUE
StopAfterRecord == FALSE

\* Record intersection, record geometric normal.
RecordHit(li, hit, r, object, prim, verts) ==
  [li EXCEPT !.hits[hit] = HitRecord(r, object, prim),
             !.Ng[hit] = GeometricNormal(verts)]

\* The whole function: r is the result of ray_triangle_intersect on the sampled
\* vertices, lcg is lcg_state != NULL, draw the value the stream returns if it
\* is stepped. The result is the return value, the buffer, the stream state and
\* the slot written (-1: none).
motion_triangle_intersect_local(li, state, r, verts, object, prim, lcg, mh, draw) ==
  LET same == [ret |-> FALSE, li |-> li, state |-> state, hit |-> -1]
  IN  IF ~r.accept THEN same
      ELSE IF ExistenceOnly(mh) THEN [same EXCEPT !.ret = TRUE]
      ELSE IF lcg
        THEN IF IsDuplicate(li, r.t, mh) THEN same
             ELSE LET counted == [li EXCEPT !.num_hits = li.num_hits + 1]
                      s == ReservoirSlot(counted.num_hits, mh, state, draw)
                  IN  IF ~s.stored
                        THEN [same EXCEPT !.li = counted, !.state = s.state]
                        ELSE [ret |-> StopAfterRecord,
                              li |-> RecordHit(counted, s.hit, r, object, prim, verts),
                              state |-> s.state, hit |-> s.hit]
        ELSE IF ClosestReject(li, r.t) THEN same
             ELSE [ret |-> StopAfterRecord,
                   li |-> RecordHit([li EXCEPT !.num_hits = 1], 0, r, object, prim, verts),
                   state |-> state, hit |-> 0]

NoLocalCall ==
  [called |-> FALSE, object |-> 0, prim |-> 0, max_hits |-> 0, ret |-> FALSE, hit |-> -1,
   tie |-> FALSE]

NextClosest(c, r, mh) ==
  IF ~r.accept \/ mh = 0 THEN c
  ELSE IF c = 0 THEN r.t ELSE min(c, r.t)

\* the values the stream can return where the call steps it
Draws(li, r, lcg, mh) ==
  IF r.accept /\ mh # 0 /\ lcg /\ li.num_hits + 1 > mh THEN 0 .. MaxDraw ELSE {0}

LocalUnchanged == UNCHANGED <<traversalVars, scenarioVars, nearestVars, refine_call, sceneVars>>

\* One call of the traversal: for any primitive, recording (max_hits) or as an
\* existence query (0).
CallLocal ==
  /\ local_isect.num_hits < MaxCount
  /\ \E object \in Objects, prim \in Prims, mh \in {0, max_hits} :
       \E draw \in Draws(local_isect, ray_hits[prim], lcg_supplied, mh) :
         LET r == ray_hits[prim]
             verts == motion_triangle_vertices(object, prim, time)
             res == motion_triangle_intersect_local(local_isect, lcg_state, r, verts, object, prim,
                                   lcg_supplied, mh, draw)
         IN  /\ local_isect' = res.li
             /\ lcg_state' = res.state
             /\ local_call' = [called |-> TRUE, object |-> object, prim |-> prim,
                               max_hits |-> mh, ret |-> res.ret, hit |-> res.hit,
                               tie |-> (local_isect.num_hits # 0
                                          /\ local_isect.hits[0].t = r.t)]
             /\ closest_t' = NextClosest(closest_t, r, mh)
  /\ LocalUnchanged

NoNearestCall ==
  [called |-> FALSE, r |-> Miss, object |-> 0, prim |-> 0, prim_addr |-> 0,
   visibility |-> {}, ret |-> FALSE]

NoRefineCall == [called |-> FALSE]

\* the state of the operations a specification does not exercise
InitNearestIdle ==
  /\ isect = Uninitialized
  /\ nearest_call = NoNearestCall
  /\ prim_visibility = [a \in PrimAddrs |-> {}]
  /\ VISIBILITY_FLAG = TRUE

InitRefineIdle ==
  /\ refine_call = NoRefineCall
  /\ INTERSECTION_REFINE = TRUE

InitLocalIdle ==
  /\ local_isect = EmptyLocalIsect
  /\ lcg_state = 0
  /\ lcg_supplied = FALSE
  /\ max_hits = 0
  /\ time = 0
  /\ ray_hits = [p \in Prims |-> Miss]
  /\ local_call = NoLocalCall
  /\ closest_t = 0
  /\ script = <<>>
  /\ fed = <<>>

InitOther == InitNearestIdle /\ InitRefineIdle

InitLocal ==
  /\ local_isect = EmptyLocalIsect
  /\ lcg_state = 0
  /\ lcg_supplied \in BOOLEAN
  /\ max_hits \in 1 .. MaxHits
  /\ time \in Times
  \* calls take the primitives in any order: the scenes are those whose
  \* primitives are numbered by distance along the ray, the missed ones first
  /\ ray_hits \in {f \in [Prims -> RayTriangleResults(1 .. MaxT)] :
                     \A p, q \in Prims : p < q => f[p].t <= f[q].t}
  /\ local_call = NoLocalCall
  /\ closest_t = 0
  /\ script = <<>>
  /\ fed = <<>>
  /\ InitOther

NextLocal == CallLocal

SpecLocal == InitLocal /\ [][NextLocal]_vars

(***************************************************************************)
(* Properties of motion_triangle_intersect_local (SpecLocal).              *)
(***************************************************************************)
\* what ray_triangle_intersect returned in the call a step makes
CallResult == ray_hits[local_call'.prim]

Materialized(li) == {i \in Slots : li.hits[i].type # "uninitialized"}

\* C1: a call with max_hits == 0 whose ray-triangle test accepts returns true
\* and leaves num_hits, every hits[i], every Ng[i] and the stream state as
\* they were, whatever the buffer holds and with or without lcg_state.
C1_ExistenceOnlyFrame ==
  [][(local_call'.max_hits = 0 /\ CallResult.accept)
       => (local_call'.ret = TRUE /\ local_isect' = local_isect /\ lcg_state' = lcg_state)]_vars

C1_Witness ==
  /\ local_call.called /\ local_call.max_hits = 0 /\ ray_hits[local_call.prim].accept
  /\ local_call.ret = TRUE
  /\ local_isect.num_hits > max_hits
  /\ lcg_state > 0

\* C3: closest-only mode (no lcg_state, max_hits >= 1): once a candidate passed
\* the test, num_hits is 1 and hits[0].t is the least distance offered so far.
C3_ClosestIsMinimum ==
  (~lcg_supplied /\ closest_t # 0)
    => (local_isect.num_hits = 1 /\ local_isect.hits[0].t = closest_t)

\* a farther candidate was offered last and rejected; the nearest one, which
\* is not the only one nearer than it, stays the one stored hit
C3_Witness ==
  /\ ~lcg_supplied /\ local_call.called /\ local_call.max_hits >= 1
  /\ ray_hits[local_call.prim].accept
  /\ local_call.hit = -1
  /\ ray_hits[local_call.prim].t > closest_t
  /\ local_isect.num_hits = 1
  /\ local_isect.hits[0].t = closest_t
  /\ local_isect.hits[0] = HitRecord(ray_hits[local_isect.hits[0].prim], 0,
                                     local_isect.hits[0].prim)

\* C4: reservoir mode (lcg_state given, max_hits >= 1): a candidate whose t
\* equals the t of one of the first min(max_hits, num_hits) slots is rejected:
\* the call returns false and changes neither num_hits, nor a record, nor a
\* normal, nor the stream state.
C4_DuplicateRejected ==
  [][(/\ lcg_supplied /\ local_call'.max_hits >= 1 /\ CallResult.accept
      /\ \E i \in 0 .. (min(local_call'.max_hits, local_isect.num_hits) - 1) :
           local_isect.hits[i].t = CallResult.t)
       => (/\ local_call'.ret = FALSE
           /\ local_call'.hit = -1
           /\ local_isect' = local_isect
           /\ lcg_state' = lcg_state)]_vars

\* two primitives with the same t were offered to an empty buffer of two
\* slots: the second was rejected and one record is stored
C4_Witness ==
  /\ lcg_supplied /\ local_call.called /\ local_call.max_hits = 2
  /\ ray_hits[local_call.prim].accept
  /\ local_call.hit = -1 /\ local_call.ret = FALSE
  /\ local_isect.num_hits = 1
  /\ local_isect.hits[0].t = ray_hits[local_call.prim].t
  /\ local_isect.hits[0].prim # local_call.prim
  /\ Materialized(local_isect) = {0}
  /\ lcg_state = 0

\* C5: the call returns true exactly when the ray-triangle test accepts and
\* max_hits == 0; a miss, a duplicate, a discard, a closest-only reject and a
\* recorded hit all return false.
C5_ReturnValue ==
  local_call.called
    => (local_call.ret = (ray_hits[local_call.prim].accept /\ local_call.max_hits = 0))

C5_Witness ==
  /\ local_call.called /\ local_call.hit >= 0 /\ local_call.ret = FALSE
  /\ local_isect.hits[local_call.hit].prim = local_call.prim

\* C6: reservoir mode from an empty buffer: every write goes to a slot in
\* [0, max_hits), the slots written are the first min(num_hits, max_hits) for
\* the records and for the normals, never more than max_hits; num_hits counts
\* every candidate that passed the test and the duplicate loop, discarded or
\* stored, and so grows beyond max_hits.
C6_BoundedCapacity ==
  /\ [](lcg_supplied
          => (/\ local_call.hit \in -1 .. (max_hits - 1)
              /\ Materialized(local_isect) = 0 .. (min(local_isect.num_hits, max_hits) - 1)
              /\ {i \in Slots : local_isect.Ng[i] # NoNormal} = Materialized(local_isect)
              /\ Cardinality(Materialized(local_isect)) <= max_hits))
  /\ [][(lcg_supplied /\ local_call'.max_hits >= 1)
          => local_isect'.num_hits =
               IF /\ CallResult.accept
                  /\ \A i \in Materialized(local_isect) : local_isect.hits[i].t # CallResult.t
                 THEN local_isect.num_hits + 1
                 ELSE local_isect.num_hits]_vars

\* num_hits grew beyond max_hits with a candidate the draw discarded
C6_Witness ==
  /\ lcg_supplied /\ local_call.called /\ local_call.max_hits >= 1
  /\ ray_hits[local_call.prim].accept
  /\ local_call.hit = -1
  /\ local_isect.num_hits > max_hits + 1
  /\ \A i \in Materialized(local_isect) : local_isect.hits[i].t # ray_hits[local_call.prim].t
  /\ Cardinality(Materialized(local_isect)) = max_hits

\* C9 as stated: closest-only mode rejects a candidate whose t is larger than
\* or equal to hits[0].t of a buffer that holds a hit, and changes nothing.
C9_TieRejected ==
  [][(/\ ~lcg_supplied /\ local_call'.max_hits >= 1 /\ CallResult.accept
      /\ local_isect.num_hits # 0 /\ local_isect.hits[0].t <= CallResult.t)
       => (local_call'.ret = FALSE /\ local_isect' = local_isect)]_vars

\* C9 amended: closest-only mode rejects a candidate only when the buffer holds
\* a hit with strictly smaller t; a candidate with equal or smaller t, and the
\* first one, overwrites slot 0 and its normal and sets num_hits to 1.
C9_ClosestOnlyRule ==
  [][(~lcg_supplied /\ local_call'.max_hits >= 1 /\ CallResult.accept)
       => /\ local_call'.ret = FALSE
          /\ IF local_isect.num_hits # 0 /\ local_isect.hits[0].t < CallResult.t
               THEN local_isect' = local_isect /\ local_call'.hit = -1
               ELSE /\ local_call'.hit = 0
                    /\ local_isect'.num_hits = 1
                    /\ local_isect'.hits[0]
                         = HitRecord(CallResult, local_call'.object, local_call'.prim)
                    /\ local_isect'.Ng[0]
                         = GeometricNormal(motion_triangle_vertices(local_call'.object,
                                                                    local_call'.prim, time))
                    /\ \A i \in Slots \ {0} :
                         /\ local_isect'.hits[i] = local_isect.hits[i]
                         /\ local_isect'.Ng[i] = local_isect.Ng[i]]_vars

\* a candidate as far as the stored hit took slot 0 from another primitive
C9_Witness ==
  /\ ~lcg_supplied /\ local_call.called /\ local_call.max_hits >= 1
  /\ local_call.tie /\ local_call.hit = 0
  /\ local_isect.hits[0].prim = local_call.prim
  /\ local_isect.hits[0].t = closest_t
  /\ \E p \in Prims \ {local_call.prim} : ray_hits[p].t = closest_t /\ ray_hits[p].accept

\* C10: the stream state advances by exactly one in a call whose candidate
\* passes the test and the duplicate loop and finds num_hits + 1 > max_hits,
\* and not at all in any other call.
C10_StreamConsumption ==
  [][lcg_state' =
       IF /\ CallResult.accept /\ local_call'.max_hits # 0 /\ lcg_supplied
          /\ ~\E i \in 0 .. (min(local_call'.max_hits, local_isect.num_hits) - 1) :
                local_isect.hits[i].t = CallResult.t
          /\ local_isect.num_hits + 1 > local_call'.max_hits
         THEN lcg_state + 1
         ELSE lcg_state]_vars

\* two candidates reached the sampling decision, the last of them discarded
C10_Witness ==
  /\ lcg_supplied /\ local_call.called
  /\ lcg_state = local_isect.num_hits - max_hits
  /\ lcg_state >= 2
  /\ local_call.hit = -1 /\ local_call.max_hits >= 1 /\ ray_hits[local_call.prim].accept

(***************************************************************************)
(* The reservoir scenario: max_hits = 2, a stream that always returns 0,   *)
(* four candidates with pairwise distinct distances offered in order.      *)
(***************************************************************************)
ScenarioPrims == {0, 1, 2, 3}

Permutations4 ==
  {q \in [1 .. 4 -> ScenarioPrims] : \A i, j \in 1 .. 4 : q[i] = q[j] => i = j}

InitScenario ==
  /\ local_isect = EmptyLocalIsect
  /\ lcg_state = 0
  /\ lcg_supplied = TRUE
  /\ max_hits = 2
  /\ time \in Times
  /\ ray_hits \in {f \in [ScenarioPrims -> RayTriangleResults(1 .. (MaxT + 1))] :
                     /\ \A p \in ScenarioPrims : f[p].accept /\ f[p].u = 0
                     /\ \A p, q \in ScenarioPrims : f[p].t = f[q].t => p = q}
  /\ script \in Permutations4
  /\ fed = <<>>
  /\ local_call = NoLocalCall
  /\ closest_t = 0
  /\ InitOther

\* the next candidate of the script is offered; the stream returns 0
OfferNext ==
  /\ script # <<>>
  /\ LET prim == Head(script)
         r == ray_hits[prim]
         verts == motion_triangle_vertices(0, prim, time)
         res == motion_triangle_intersect_local(local_isect, lcg_state, r, verts, 0, prim,
                               lcg_supplied, max_hits, 0)
     IN  /\ local_isect' = res.li
         /\ lcg_state' = res.state
         /\ local_call' = [called |-> TRUE, object |-> 0, prim |-> prim,
                           max_hits |-> max_hits, ret |-> res.ret, hit |-> res.hit,
                           tie |-> FALSE]
         /\ closest_t' = NextClosest(closest_t, r, max_hits)
         /\ fed' = Append(fed, prim)
         /\ script' = Tail(script)
  /\ UNCHANGED <<traversalVars, nearestVars, refine_call, sceneVars>>

NextScenario == OfferNext

SpecScenario == InitScenario /\ [][NextScenario]_vars

Candidate(k) == HitRecord(ray_hits[fed[k + 1]], 0, fed[k + 1])

\* C2 as stated: after candidate0..candidate3 the slots are
\* [candidate0, candidate3].
C2_SlotsAsStated ==
  Len(fed) = 4
    => (local_isect.hits[0] = Candidate(0) /\ local_isect.hits[1] = Candidate(3))

\* C2 amended: after candidate0..candidate3 the slots are
\* [candidate3, candidate1]: candidate2 and then candidate3 draw index 0 and
\* replace slot 0, slot 1 keeps candidate1; num_hits is 4 after two draws.
C2_SlotsOfTheCode ==
  Len(fed) = 4
    => (/\ local_isect.hits[0] = Candidate(3)
        /\ local_isect.hits[1] = Candidate(1)
        /\ local_isect.num_hits = 4
        /\ lcg_state = 2)

C2_Witness ==
  /\ Len(fed) = 4 /\ script = <<>>
  /\ local_call.hit = 0 /\ local_call.prim = fed[4]
  /\ local_isect.hits[0].prim = fed[4]
  /\ local_isect.hits[1].prim = fed[2]

(***************************************************************************)
(* motion_triangle_intersect                                               *)
(***************************************************************************)
\* kernel_tex_fetch(__prim_visibility, prim_addr)
kernel_tex_fetch(table, addr) == table[addr]

\* if (kernel_tex_fetch(__prim_visibility, prim_addr) & visibility)
VisibleLogicalAnd(flags, visibility) == flags # {} /\ visibility # {}
Visible(flags, visibility) == (flags \cap visibility) # {}

\* The whole function: r is the result of ray_triangle_intersect on the sampled
\* vertices, visflag whether the build compiles the visibility test. The result
\* is the return value and the caller's Intersection.
motion_triangle_intersect(is, r, table, visflag, visibility, object, prim, prim_addr) ==
  IF r.accept /\ (visflag => Visible(kernel_tex_fetch(table, prim_addr), visibility))
    THEN [ret |-> TRUE, isect |-> HitRecord(r, object, prim)]
    ELSE [ret |-> FALSE, isect |-> is]

CallNearest ==
  /\ \E r \in RayTriangleResults(1 .. MaxT), object \in Objects, prim \in PrimAddrs,
        prim_addr \in PrimAddrs, visibility \in SUBSET VisibilityBits :
       LET res == motion_triangle_intersect(isect, r, prim_visibility, VISIBILITY_FLAG, visibility,
                            object, prim, prim_addr)
       IN  /\ isect' = res.isect
           /\ nearest_call' = [called |-> TRUE, r |-> r, object |-> object, prim |-> prim,
                               prim_addr |-> prim_addr, visibility |-> visibility,
                               ret |-> res.ret]
  /\ UNCHANGED <<localVars, traversalVars, scenarioVars, refine_call, sceneVars>>

InitNearest ==
  /\ isect = Uninitialized
  /\ nearest_call = NoNearestCall
  /\ prim_visibility \in [PrimAddrs -> {{}, {0}, {0, 1}}]
  /\ VISIBILITY_FLAG \in BOOLEAN
  /\ InitLocalIdle
  /\ InitRefineIdle

NextNearest == CallNearest

SpecNearest == InitNearest /\ [][NextNearest]_vars

Rat(n, d) ==
  LET g == Gcd(Gcd(Gcd(Abs(n[1]), Abs(n[2])), Abs(n[3])), Abs(d))
      sg == IF d < 0 THEN -g ELSE g
  IN  [num |-> <<n[1] \div sg, n[2] \div sg, n[3] \div sg>>, den |-> d \div sg]

\* Transform: rotation rows R and translation T
apply(R, a) == <<dot(R[1], a), dot(R[2], a), dot(R[3], a)>>
transform_point(tfm, a) == add(apply(tfm.R, a), tfm.T)
transform_direction(tfm, a) == apply(tfm.R, a)
transform_point_rat(tfm, q) == Rat(add(apply(tfm.R, q.num), scale(tfm.T, q.den)), q.den)

Identity3 == <<<<1, 0, 0>>, <<0, 1, 0>>, <<0, 0, 1>>>>
QuarterTurnZ == <<<<0, -1, 0>>, <<1, 0, 0>>, <<0, 0, 1>>>>
Transpose(R) == <<<<R[1][1], R[2][1], R[3][1]>>,
                  <<R[1][2], R[2][2], R[3][2]>>,
                  <<R[1][3], R[2][3], R[3][3]>>>>

\* the object transforms of the scene: rigid motions
Transforms ==
  {[R |-> Identity3, T |-> <<0, 0, 0>>],
   [R |-> Identity3, T |-> <<0, 0, 1>>],
   [R |-> QuarterTurnZ, T |-> <<1, 0, 0>>]}

object_get_transform(sd) == sd.tfm
\* the inverse of a rigid motion
object_get_inverse_transform(sd) ==
  [R |-> Transpose(sd.tfm.R), T |-> scale(apply(Transpose(sd.tfm.R), sd.tfm.T), -1)]

\* normalize_len(a, &t): the unit vector along a and the length of a, for a
\* parallel to an axis
normalize_len(a) == [dir |-> normalize(a), len |-> Abs(a[1]) + Abs(a[2]) + Abs(a[3])]

\* Compute refined intersection distance: rt = dot(e2, s2) * (1 / dot(s1, e1)),
\* kept as the fraction num / den.
RefinedDistanceWrongEdge(P, D, verts) ==
  LET e1 == sub(verts[1], verts[3])
      e2 == sub(verts[2], verts[3])
      s1 == cross(D, e2)
      d  == sub(P, verts[3])
      s2 == cross(d, e1)
  IN  [num |-> dot(e1, s2), den |-> dot(s1, e1)]
RefinedDistance(P, D, verts) ==
  LET e1 == sub(verts[1], verts[3])
      e2 == sub(verts[2], verts[3])
      s1 == cross(D, e2)
      d  == sub(P, verts[3])
      s2 == cross(d, e1)
  IN  [num |-> dot(e2, s2), den |-> dot(s1, e1)]

\* The whole function; refine is whether the build defines
\* __INTERSECTION_REFINE__, sd holds object_flag and the object's transform.
motion_triangle_refine(refine, sd, P, D, t, verts) ==
  LET applied == "SD_OBJECT_TRANSFORM_APPLIED" \in sd.object_flag
  IN  IF ~refine THEN Rat(add(P, scale(D, t)), 1)
      ELSE IF ~applied /\ t = 0 THEN Rat(P, 1)
      ELSE LET itfm == object_get_inverse_transform(sd)
               nl == normalize_len(transform_direction(itfm, scale(D, t)))
               P0 == IF applied THEN P ELSE transform_point(itfm, P)
               D1 == IF applied THEN D ELSE nl.dir
               t1 == IF applied THEN t ELSE nl.len
               P1 == add(P0, scale(D1, t1))
               rt == RefinedDistance(P1, D1, verts)
               P2 == Rat(add(scale(P1, rt.den), scale(D1, rt.num)), rt.den)
           IN  IF applied THEN P2 ELSE transform_point_rat(object_get_transform(sd), P2)

Origins == {<<0, 0, 0>>, <<0, 0, -1>>, <<1, 2, 0>>}
Directions == {<<1, 0, 0>>, <<-1, 0, 0>>, <<0, 1, 0>>, <<0, -1, 0>>, <<0, 0, 1>>, <<0, 0, -1>>}
Triangles ==
  {motion_triangle_vertices(o, p, tm) : o \in Objects, p \in Prims, tm \in Times}
    \cup {<<<<1, 0, 0>>, <<0, 1, 0>>, <<0, 0, 1>>>>}
ObjectFlags == SUBSET {"SD_OBJECT_TRANSFORM_APPLIED", "SD_OBJECT_MOTION"}

\* The ray of a hit crosses the plane of its triangle: D, taken to the space
\* of verts, is not parallel to it.
CrossesPlane(sd, D, verts) ==
  LET Dv == IF "SD_OBJECT_TRANSFORM_APPLIED" \in sd.object_flag
              THEN D
              ELSE transform_direction(object_get_inverse_transform(sd), D)
  IN  dot(cross(sub(verts[2], verts[3]), sub(verts[1], verts[3])), Dv) # 0

\* the arguments of the call: a ray, the coarse distance t of a hit, which
\* may be off the plane, and the triangle hit
InitRefine ==
  /\ INTERSECTION_REFINE \in BOOLEAN
  /\ refine_call \in {c \in [called : {FALSE},
                              sd : [object_flag : ObjectFlags, tfm : Transforms],
                              P : Origins, D : Directions, t : 0 .. MaxT,
                              verts : Triangles, result : {Rat(<<0, 0, 0>>, 1)}] :
                        CrossesPlane(c.sd, c.D, c.verts)}
  /\ InitLocalIdle
  /\ InitNearestIdle

CallRefine ==
  /\ ~refine_call.called
  /\ refine_call' = [refine_call EXCEPT
                       !.called = TRUE,
                       !.result = motion_triangle_refine(INTERSECTION_REFINE, refine_call.sd, refine_call.P,
                                         refine_call.D, refine_call.t, refine_call.verts)]
  /\ UNCHANGED <<localVars, traversalVars, scenarioVars, nearestVars, sceneVars>>

NextRefine == CallRefine

SpecRefine == InitRefine /\ [][NextRefine]_vars

TransformApplied == "SD_OBJECT_TRANSFORM_APPLIED" \in refine_call.sd.object_flag
NaivePoint == Rat(add(refine_call.P, scale(refine_call.D, refine_call.t)), 1)
\* the normal of the plane of the triangle passed in
PlaneNormal ==
  cross(sub(refine_call.verts[2], refine_call.verts[3]),
        sub(refine_call.verts[1], refine_call.verts[3]))
\* the signed offset from the plane of a point num / den, times den
PlaneOffset(q) == dot(PlaneNormal, sub(q.num, scale(refine_call.verts[3], q.den)))

\* C8 as stated: with SD_OBJECT_TRANSFORM_APPLIED set the function returns
\* exactly P + D*t.
C8_NaivePointReturned ==
  (refine_call.called /\ TransformApplied) => refine_call.result = NaivePoint

\* C8 amended: with SD_OBJECT_TRANSFORM_APPLIED set only the two object
\* transforms (and the t == 0 shortcut) are skipped. A build without
\* __INTERSECTION_REFINE__ returns P + D*t; a build with it adds the
\* correction D*rt to P + D*t: the result is the point of the line P + s*D in
\* the triangle's plane, so it is P + D*t only when that point lies in the
\* plane already.
C8_RefinedWithoutTransform ==
  (refine_call.called /\ TransformApplied)
    => IF ~INTERSECTION_REFINE THEN refine_call.result = NaivePoint
       ELSE /\ refine_call.result.den > 0
            /\ PlaneOffset(refine_call.result) = 0
            /\ cross(sub(refine_call.result.num, scale(refine_call.P, refine_call.result.den)),
                     refine_call.D) = <<0, 0, 0>>
            /\ (refine_call.result = NaivePoint) = (PlaneOffset(NaivePoint) = 0)

\* a distance that stops short of the plane: the point returned is in the
\* plane and is not P + D*t
C8_Witness ==
  /\ refine_call.called /\ TransformApplied /\ INTERSECTION_REFINE
  /\ refine_call.result.den > 0
  /\ refine_call.result # NaivePoint
  /\ refine_call.t > 0
  /\ refine_call.sd.tfm.R # Identity3

====
